---- MODULE Spec2Model ----
(***************************************************************************)
(* Position & Expiry Delivery Engine.                                      *)
(*                                                                         *)
(*   position_manager.py        PositionDetails, PositionManager           *)
(*   expiry_delivery_module.py  ExpiryDeliveryGenerator                    *)
(*                                                                         *)
(* Units.  The store's lots are floats compared against 0.0001; they are   *)
(* modelled as whole numbers of LotQuantum = 0.00005 lot, so that 0.0001   *)
(* is EPSILON = 2 quanta and a non-zero value below the threshold exists.  *)
(* Float addition is modelled by exact integer addition.                   *)
(***************************************************************************)
EXTENDS Integers, Sequences, FiniteSets, TLC

VARIABLES
    positions,      \* PositionManager.positions : ticker -> PositionDetails
    cum,            \* history: per ticker, initial lots plus every applied delta
    call,           \* history: the last call made on the manager and its arguments
    input_df,       \* the DataFrame the caller hands to process_positions_by_expiry
    input_prices,   \* the caller's prices dictionary: symbol -> last price
    usdinr_rate,    \* ExpiryDeliveryGenerator.usdinr_rate
    results,        \* what the last process_positions_by_expiry call returned
    previous,       \* history: what the call before it returned
    steps           \* history: per expiry, what each loop iteration of the last call produced

settle_vars == <<input_df, input_prices, usdinr_rate, results, previous, steps>>
vars == <<positions, cum, call, input_df, input_prices, usdinr_rate, results, previous, steps>>

----------------------------------------------------------------------------
(* Bounds of the model *)

MaxLots == 3        \* |lots| and |quantity_change| stay within MaxLots quanta
MaxSeeds == 1       \* length of a snapshot given to initialize_from_positions
MaxBatch == 2       \* length of a snapshot over two tickers

(* Program constants *)

EPSILON == 2            \* 0.0001 lot, in quanta of 0.00005 lot
FALLBACK_LOT_SIZE == 100

Abs(x) == IF x < 0 THEN -x ELSE x

None == [none |-> TRUE]

----------------------------------------------------------------------------
(* Strings the code takes apart are sequences of one-character strings *)

SPACE == " "

\* "RIL=A IS Equity"
RIL_FUT == <<"R","I","L","=","A"," ","I","S"," ","E","q","u","i","t","y">>
\* "RIL"
RIL == <<"R","I","L">>
\* "RIL IS Equity"
RIL_EQ == <<"R","I","L"," ","I","S"," ","E","q","u","i","t","y">>

\* str.split(' ')[0]: the characters before the first space
RECURSIVE FirstToken(_)
FirstToken(s) ==
    IF s = <<>> \/ Head(s) = SPACE THEN <<>>
    ELSE <<Head(s)>> \o FirstToken(Tail(s))

IsPrefix(p, s) == Len(p) <= Len(s) /\ SubSeq(s, 1, Len(p)) = p

\* sub in s
Contains(sub, s) ==
    \E i \in 1..(Len(s) - Len(sub) + 1) : SubSeq(s, i, i + Len(sub) - 1) = sub

\* s.split(sep)[0]: the characters before the first occurrence of sep
RECURSIVE BeforeFirst(_, _)
BeforeFirst(sep, s) ==
    IF s = <<>> \/ IsPrefix(sep, s) THEN <<>>
    ELSE <<Head(s)>> \o BeforeFirst(sep, Tail(s))

LowerCase == <<"a","b","c","d","e","f","g","h","i","j","k","l","m",
               "n","o","p","q","r","s","t","u","v","w","x","y","z">>
UpperCase == <<"A","B","C","D","E","F","G","H","I","J","K","L","M",
               "N","O","P","Q","R","S","T","U","V","W","X","Y","Z">>

\* str.upper(), letter by letter
UPPER_OF ==
    [c \in {LowerCase[k] : k \in 1..Len(LowerCase)} |->
        UpperCase[CHOOSE k \in 1..Len(LowerCase) : LowerCase[k] = c]]

Upper(s) ==
    [i \in 1..Len(s) |-> IF s[i] \in DOMAIN UPPER_OF THEN UPPER_OF[s[i]] ELSE s[i]]

\* "TCS=A IS Equity", "TCS", "TCS IS Equity"
TCS_FUT == <<"T","C","S","=","A"," ","I","S"," ","E","q","u","i","t","y">>
TCS == <<"T","C","S">>
TCS_EQ == <<"T","C","S"," ","I","S"," ","E","q","u","i","t","y">>
\* "TATA": a symbol that is not the first word of its underlying
TATA == <<"T","A","T","A">>
\* "NZA Index", "NIFTY", "NZ Index"
NZ_FUT == <<"N","Z","A"," ","I","n","d","e","x">>
NIFTY == <<"N","I","F","T","Y">>
NZ_INDEX == <<"N","Z"," ","I","n","d","e","x">>

\* literals of the expiry module
S_INDEX == <<"I","N","D","E","X">>
S_NZ == <<"N","Z">>
S_AF1 == <<"A","F","1">>
S_NSEBANK == <<"N","S","E","B","A","N","K">>
S_IS_EQUITY == <<" ","I","S"," ","E","q","u","i","t","y">>
S_IS == <<" ","I","S"," ">>
S_SP_INDEX == <<" ","I","n","d","e","x">>
S_N_A == <<"N","/","A">>

----------------------------------------------------------------------------
(* Input domains of the position store *)

SecurityTypes == {"Futures", "Call", "Put"}
Strategies == {"FULO", "FUSH"}
StoreTickers == {RIL_FUT}
\* every ticker a store of the model can hold
AllTickers == {RIL_FUT, TCS_FUT}
LotValues == (-MaxLots)..MaxLots
\* seeds: short, just below zero, zero, just above zero, long
SeedLots == {-MaxLots, -1, 0, 1, MaxLots}

EXPIRY_1 == [date |-> 1, time |-> 0]
CLOCK_NOW == [date |-> 0, time |-> 5]

\* Normalised records the position parser hands to initialize_from_positions
Seeds ==
    [bloomberg_ticker : StoreTickers, symbol : {RIL}, security_type : SecurityTypes,
     expiry_date : {EXPIRY_1}, strike_price : {100}, position_lots : SeedLots,
     lot_size : {2}, underlying_ticker : {RIL_EQ}]
    \cup
    [bloomberg_ticker : StoreTickers, symbol : {RIL}, security_type : {"Futures"},
     expiry_date : {EXPIRY_1}, strike_price : {100}, position_lots : SeedLots,
     lot_size : {0}, underlying_ticker : {RIL_EQ}]

RECURSIVE SeqsUpTo(_, _)
SeqsUpTo(S, n) ==
    IF n = 0 THEN {<<>>}
    ELSE LET shorter == SeqsUpTo(S, n - 1)
         IN  shorter \cup {Append(q, x) : q \in {r \in shorter : Len(r) = n - 1}, x \in S}

Snapshots == SeqsUpTo(Seeds, MaxSeeds)

\* Trade objects the trade parser hands to update_position (None: no context)
TradeObjects ==
    [symbol : {RIL}, security_type : {"Futures"}, expiry_date : {EXPIRY_1},
     strike_price : {100}, lot_size : {3}, underlying_ticker : {RIL_EQ}]

----------------------------------------------------------------------------
(* PositionDetails *)

\* PositionDetails.update_qty
update_qty(p) ==
    [p EXCEPT !.qty = p.lots * p.lot_size,
              !.direction = IF p.lots > 0 THEN "Long"
                            ELSE IF p.lots < 0 THEN "Short" ELSE "Flat"]

\* direction as the constructors' callers compute it
CreationDirection(lots) == IF lots > 0 THEN "Long" ELSE "Short"

----------------------------------------------------------------------------
(* PositionManager.initialize_from_positions *)

InitialStrategy(pos) ==
    IF pos.security_type = "Put"
    THEN (IF pos.position_lots > 0 THEN "FUSH" ELSE "FULO")
    ELSE (IF pos.position_lots > 0 THEN "FULO" ELSE "FUSH")

SeedPosition(pos) ==
    [ticker |-> pos.bloomberg_ticker,
     symbol |-> pos.symbol,
     security_type |-> pos.security_type,
     expiry |-> pos.expiry_date,
     strike |-> IF pos.security_type # "Futures" THEN pos.strike_price ELSE 0,
     lots |-> pos.position_lots,
     lot_size |-> pos.lot_size,
     qty |-> pos.position_lots * pos.lot_size,
     strategy |-> InitialStrategy(pos),
     direction |-> CreationDirection(pos.position_lots),
     underlying_ticker |-> pos.underlying_ticker]

\* self.positions[key] = value on a dict
DictSet(d, k, v) == [x \in DOMAIN d \cup {k} |-> IF x = k THEN v ELSE d[x]]

\* del self.positions[key]
DictDel(d, k) == [x \in DOMAIN d \ {k} |-> d[x]]

EmptyDict == [x \in {} |-> None]

\* the loop over initial_positions, from the cleared dict
RECURSIVE SeedLoop(_, _)
SeedLoop(store, snapshot) ==
    IF snapshot = <<>> THEN store
    ELSE SeedLoop(DictSet(store, Head(snapshot).bloomberg_ticker,
                          SeedPosition(Head(snapshot))),
                  Tail(snapshot))

\* the loop run over the dict as it stands, without clearing it
InitializedStore_Kept(snapshot) == SeedLoop(positions, snapshot)

InitializedStore(snapshot) == SeedLoop(EmptyDict, snapshot)

InitializeFromPositions(snapshot) ==
    /\ positions' = InitializedStore(snapshot)
    /\ cum' = [t \in AllTickers |->
                 IF t \in DOMAIN positions' THEN positions'[t].lots ELSE 0]
    /\ call' = [name |-> "initialize_from_positions", ticker |-> <<>>,
                quantity_change |-> 0, trade_object |-> None,
                snapshot |-> snapshot]
    /\ UNCHANGED settle_vars

----------------------------------------------------------------------------
(* PositionManager.update_position *)

\* NEW POSITION, with a trade object
NewPositionFromTrade(ticker, quantity_change, security_type, strategy, trade_object) ==
    [ticker |-> ticker,
     symbol |-> trade_object.symbol,
     security_type |-> security_type,
     expiry |-> trade_object.expiry_date,
     strike |-> IF security_type # "Futures" THEN trade_object.strike_price ELSE 0,
     lots |-> quantity_change,
     lot_size |-> trade_object.lot_size,
     qty |-> quantity_change * trade_object.lot_size,
     strategy |-> strategy,
     direction |-> CreationDirection(quantity_change),
     underlying_ticker |-> trade_object.underlying_ticker]

\* NEW POSITION, fallback without a trade object
NewPositionFallback(ticker, quantity_change, security_type, strategy, now) ==
    [ticker |-> ticker,
     symbol |-> FirstToken(ticker),
     security_type |-> security_type,
     expiry |-> now,
     strike |-> 0,
     lots |-> quantity_change,
     lot_size |-> FALLBACK_LOT_SIZE,
     qty |-> quantity_change * FALLBACK_LOT_SIZE,
     strategy |-> strategy,
     direction |-> CreationDirection(quantity_change),
     underlying_ticker |-> <<>>]

\* the threshold taken inclusively
IsClosed_Inclusive(new_lots) == Abs(new_lots) <= EPSILON

\* abs(new_lots) < 0.0001
IsClosed(new_lots) == Abs(new_lots) < EPSILON

\* an update that rebuilds the held position from the fallback lot size
UpdatedStore_Relot(store, ticker, quantity_change, strategy) ==
    LET old_position == store[ticker]
        new_lots == old_position.lots + quantity_change
    IN  IF IsClosed(new_lots)
        THEN DictDel(store, ticker)
        ELSE DictSet(store, ticker,
                     update_qty([old_position EXCEPT !.lots = new_lots,
                                                     !.strategy = strategy,
                                                     !.lot_size = FALLBACK_LOT_SIZE]))

\* UPDATE EXISTING
UpdatedStore(store, ticker, quantity_change, strategy) ==
    LET old_position == store[ticker]
        new_lots == old_position.lots + quantity_change
    IN  IF IsClosed(new_lots)
        THEN DictDel(store, ticker)
        ELSE DictSet(store, ticker,
                     update_qty([old_position EXCEPT !.lots = new_lots,
                                                     !.strategy = strategy]))

UpdatePosition(ticker, quantity_change, security_type, strategy, trade_object, now) ==
    /\ Abs(cum[ticker] + quantity_change) <= MaxLots
    /\ ticker \in DOMAIN positions =>
           Abs(positions[ticker].lots + quantity_change) <= MaxLots
    /\ positions' =
         IF ticker \notin DOMAIN positions
         THEN DictSet(positions, ticker,
                IF trade_object # None
                THEN NewPositionFromTrade(ticker, quantity_change, security_type,
                                          strategy, trade_object)
                ELSE NewPositionFallback(ticker, quantity_change, security_type,
                                         strategy, now))
         ELSE UpdatedStore(positions, ticker, quantity_change, strategy)
    /\ cum' = [cum EXCEPT ![ticker] = @ + quantity_change]
    /\ call' = [name |-> "update_position", ticker |-> ticker,
                quantity_change |-> quantity_change, trade_object |-> trade_object]
    /\ UNCHANGED settle_vars

----------------------------------------------------------------------------
(* PositionManager.is_trade_opposing *)

\* trade_quantity values: a sale, nothing, a purchase
QuerySigns == {-1, 0, 1}

\* self.positions.get(ticker)
GetPosition(store, ticker) == IF ticker \in DOMAIN store THEN store[ticker] ELSE None

\* a flat position counted as long
TradeOpposes_FlatIsLong(store, ticker, trade_quantity) ==
    LET position == GetPosition(store, ticker)
    IN  IF position = None THEN FALSE
        ELSE \/ position.lots >= 0 /\ trade_quantity < 0
             \/ position.lots < 0 /\ trade_quantity > 0

\* the value is_trade_opposing returns
TradeOpposes(store, ticker, trade_quantity) ==
    LET position == GetPosition(store, ticker)
    IN  IF position = None THEN FALSE
        ELSE \/ position.lots > 0 /\ trade_quantity < 0
             \/ position.lots < 0 /\ trade_quantity > 0

IsTradeOpposing(ticker, trade_quantity, security_type) ==
    /\ call' = [name |-> "is_trade_opposing", ticker |-> ticker,
                quantity_change |-> trade_quantity, trade_object |-> None,
                returned |-> TradeOpposes(positions, ticker, trade_quantity)]
    /\ UNCHANGED <<positions, cum>>
    /\ UNCHANGED settle_vars

----------------------------------------------------------------------------
(* The position store driven by its caller *)

Init ==
    /\ positions = EmptyDict
    /\ cum = [t \in AllTickers |-> 0]
    /\ call = [name |-> "init", ticker |-> <<>>, quantity_change |-> 0,
               trade_object |-> None]
    /\ input_df = <<>>
    /\ input_prices = [s \in {} |-> 0]
    /\ usdinr_rate = 88
    /\ results = [ran |-> FALSE]
    /\ previous = [ran |-> FALSE]
    /\ steps = [ran |-> FALSE]

Next ==
    \/ \E snapshot \in Snapshots : InitializeFromPositions(snapshot)
    \/ \E ticker \in StoreTickers, quantity_change \in LotValues,
          security_type \in SecurityTypes, strategy \in Strategies,
          trade_object \in TradeObjects \cup {None} :
          UpdatePosition(ticker, quantity_change, security_type, strategy,
                         trade_object, CLOCK_NOW)
    \/ \E ticker \in StoreTickers, trade_quantity \in QuerySigns,
          security_type \in SecurityTypes :
          IsTradeOpposing(ticker, trade_quantity, security_type)

Spec == Init /\ [][Next]_vars

----------------------------------------------------------------------------
(* The store holding two tickers, seeded by snapshots of several records *)

SymbolOf(ticker) == IF ticker = RIL_FUT THEN RIL ELSE TCS
UnderlyingOf(ticker) == IF ticker = RIL_FUT THEN RIL_EQ ELSE TCS_EQ

\* seeds: short, and the smallest long position that stays open
BookLots == {-MaxLots, EPSILON}
\* trades of one quantum either way, all booked under strategy FUSH
BookQuantities == {-1, 1}

BookSeeds ==
    {[bloomberg_ticker |-> t, symbol |-> SymbolOf(t), security_type |-> "Futures",
      expiry_date |-> EXPIRY_1, strike_price |-> 100, position_lots |-> l,
      lot_size |-> 2, underlying_ticker |-> UnderlyingOf(t)] :
        t \in AllTickers, l \in BookLots}

BookSnapshots == SeqsUpTo(BookSeeds, MaxBatch)

\* the trade object of a trade on the ticker: an option, in lots of 3
BookTradeObject(ticker) ==
    [symbol |-> SymbolOf(ticker), security_type |-> "Call", expiry_date |-> CLOCK_NOW,
     strike_price |-> 100, lot_size |-> 3, underlying_ticker |-> <<>>]

NextBook ==
    \/ \E snapshot \in BookSnapshots : InitializeFromPositions(snapshot)
    \/ \E ticker \in AllTickers, quantity_change \in BookQuantities :
          UpdatePosition(ticker, quantity_change, "Call", "FUSH",
                         BookTradeObject(ticker), CLOCK_NOW)

SpecBook == Init /\ [][NextBook]_vars

----------------------------------------------------------------------------
(* ExpiryDeliveryGenerator: values                                         *)
(*                                                                         *)
(* Prices and strikes are whole numbers of mils (0.001); a value the code  *)
(* rounds to 2 decimals is a whole number of cents (0.01).  A DataFrame is *)
(* the sequence of its rows; its 'Lots' are whole lots.  A cell that may   *)
(* be NaN or missing is a tagged record.                                   *)

Num(v) == [kind |-> "num", v |-> v]
Str(s) == [kind |-> "str", s |-> s]
NaN == [kind |-> "nan"]
Absent == [kind |-> "absent"]

\* pd.notna(cell)
NotNa(cell) == cell.kind # "nan"

\* round(x, 2) of x = n / d cents, ties to even
Round2(n, d) ==
    LET q == n \div d
        r == n % d
    IN  IF 2 * r < d THEN q
        ELSE IF 2 * r > d THEN q + 1
        ELSE IF q % 2 = 0 THEN q ELSE q + 1

Max0(x) == IF x > 0 THEN x ELSE 0

\* mils per cent, and mils-times-1e-5 per cent
MILS_PER_CENT == 10
RATED_PER_CENT == 1000000

\* tax rates, in units of 0.00001
FUT_STT_RATE == 100
FUT_STAMP_RATE == 2
OPT_STT_RATE == 125
OPT_STAMP_RATE == 3

DEFAULT_USDINR == 88

----------------------------------------------------------------------------
(* ExpiryDeliveryGenerator._get_price_for_position *)

\* a missing price taken as a price of zero
LookupKey_Zero(cell, prices) ==
    IF ~NotNa(cell) THEN Num(0)
    ELSE IF cell.s \in DOMAIN prices THEN Num(prices[cell.s])
    ELSE Num(0)

\* one key of the loop over ['Symbol', 'Underlying']
LookupKey(cell, prices) ==
    IF ~NotNa(cell) THEN None
    ELSE IF cell.s \in DOMAIN prices THEN Num(prices[cell.s])
    ELSE LET base_symbol == FirstToken(cell.s)
         IN  IF base_symbol # <<>> /\ base_symbol \in DOMAIN prices
             THEN Num(prices[base_symbol])
             ELSE None

\* the prices mapping asked before the price attached to the position
GetPriceForPosition_MappingFirst(row, prices) ==
    LET by_symbol == LookupKey(Str(row.Symbol), prices)
        by_underlying == LookupKey(row.Underlying, prices)
    IN  IF by_symbol # None THEN by_symbol
        ELSE IF by_underlying # None THEN by_underlying
        ELSE IF row.Yahoo_Price.kind = "num" THEN Num(row.Yahoo_Price.v)
        ELSE None

GetPriceForPosition(row, prices) ==
    IF row.Yahoo_Price.kind = "num" THEN Num(row.Yahoo_Price.v)
    ELSE LET by_symbol == LookupKey(Str(row.Symbol), prices)
         IN  IF by_symbol # None THEN by_symbol
             ELSE LookupKey(row.Underlying, prices)

----------------------------------------------------------------------------
(* ExpiryDeliveryGenerator._is_index_product *)

IndexRoots == {NIFTY, S_NZ, S_AF1, S_NSEBANK}

\* the word INDEX looked for as written, and no index roots
IsIndexProduct_ExactCase(ticker) == Contains(S_INDEX, ticker)

IsIndexProduct(ticker) ==
    LET ticker_upper == Upper(ticker)
    IN  Contains(S_INDEX, ticker_upper)
        \/ \E idx \in IndexRoots : Contains(idx, ticker_upper)

----------------------------------------------------------------------------
(* ExpiryDeliveryGenerator._process_futures *)

FuturesUnderlying(row) ==
    IF NotNa(row.Underlying) THEN row.Underlying.s
    ELSE IF Contains(S_IS_EQUITY, row.Ticker)
         THEN BeforeFirst(<<"=">>, row.Ticker) \o S_IS_EQUITY
    ELSE IF Contains(S_SP_INDEX, row.Ticker)
         THEN FirstToken(row.Ticker) \o S_SP_INDEX
    ELSE row.Symbol

FuturesDerivative(row, last_price) ==
    [Underlying |-> FuturesUnderlying(row),
     Symbol |-> row.Ticker,
     Expiry |-> row.Expiry,
     Buy_Sell |-> IF row.Lots > 0 THEN "Sell" ELSE "Buy",
     Strategy |-> IF row.Lots > 0 THEN "FULO" ELSE "FUSH",
     Position |-> Abs(row.Lots),
     Price |-> last_price,
     Type |-> "Futures",
     Strike |-> "",
     Lot_Size |-> row.Lot_Size,
     tradenotes |-> ""]

\* the option rate applied to a future
FuturesStt_OptionRate(cash_quantity, last_price) ==
    cash_quantity * last_price * OPT_STT_RATE

\* stt before rounding, in units of 1e-8
FuturesStt(cash_quantity, last_price) == cash_quantity * last_price * FUT_STT_RATE

\* stamp_duty before rounding, in units of 1e-8
FuturesStampDuty(cash_quantity, last_price) ==
    cash_quantity * last_price * FUT_STAMP_RATE

FuturesCash(row, last_price) ==
    LET cash_quantity == Abs(row.Lots) * row.Lot_Size
        stt == FuturesStt(cash_quantity, last_price)
        stamp_duty == FuturesStampDuty(cash_quantity, last_price)
    IN  [Underlying |-> FuturesUnderlying(row),
         Symbol |-> FuturesUnderlying(row),
         Expiry |-> "",
         Buy_Sell |-> IF row.Lots > 0 THEN "Buy" ELSE "Sell",
         Strategy |-> "EQLO2",
         Position |-> cash_quantity,
         Price |-> last_price,
         Type |-> "CASH",
         Strike |-> "",
         Lot_Size |-> "",
         tradenotes |-> "",
         STT |-> Round2(stt, RATED_PER_CENT),
         Stamp_Duty |-> Round2(stamp_duty, RATED_PER_CENT),
         Taxes |-> Round2(stt + stamp_duty, RATED_PER_CENT)]

ProcessFutures(row, last_price) ==
    [deriv |-> FuturesDerivative(row, last_price),
     cash |-> IF ~IsIndexProduct(row.Ticker) THEN FuturesCash(row, last_price) ELSE None]

----------------------------------------------------------------------------
(* ExpiryDeliveryGenerator._process_option *)

\* an option at its strike counted as in the money
IsOptionITM_Inclusive(option_type, strike, spot_price) ==
    IF option_type = "Call" THEN spot_price >= strike
    ELSE IF option_type = "Put" THEN spot_price <= strike
    ELSE FALSE

IsOptionITM(option_type, strike, spot_price) ==
    IF option_type = "Call" THEN spot_price > strike
    ELSE IF option_type = "Put" THEN spot_price < strike
    ELSE FALSE

OptionStrike(row) == IF NotNa(row.Strike) THEN row.Strike.v ELSE 0

OptionUnderlying(row) ==
    IF NotNa(row.Underlying) THEN row.Underlying.s
    ELSE IF Contains(S_IS, row.Ticker)
         THEN BeforeFirst(S_IS, row.Ticker) \o S_IS_EQUITY
    ELSE IF Contains(S_SP_INDEX, row.Ticker)
         THEN FirstToken(row.Ticker) \o S_SP_INDEX
    ELSE row.Symbol

\* a Put tagged as a Call is
DerivStrategy_PutAsCall(option_type, position) ==
    IF position > 0 THEN "FULO" ELSE "FUSH"

\* deriv_strategy of an option
DerivStrategy(option_type, position) ==
    IF option_type = "Call"
    THEN (IF position > 0 THEN "FULO" ELSE "FUSH")
    ELSE (IF position > 0 THEN "FUSH" ELSE "FULO")

\* the intrinsic value recorded for every ITM option, index or not
DerivPrice_AnyITM(option_type, is_index, is_itm, last_price, strike) ==
    IF is_itm
    THEN (IF option_type = "Call" THEN Max0(last_price - strike)
          ELSE Max0(strike - last_price))
    ELSE 0

\* deriv_price: index options cash settle to intrinsic value
DerivPrice(option_type, is_index, is_itm, last_price, strike) ==
    IF is_index /\ is_itm
    THEN (IF option_type = "Call" THEN Max0(last_price - strike)
          ELSE Max0(strike - last_price))
    ELSE 0

OptionDerivative(row, last_price, is_index, is_itm) ==
    LET strike == OptionStrike(row)
        option_type == row.Security_Type
        deriv_buy_sell == IF row.Lots > 0 THEN "Sell" ELSE "Buy"
        deriv_strategy == DerivStrategy(option_type, row.Lots)
        deriv_price == DerivPrice(option_type, is_index, is_itm, last_price, strike)
        tradenotes ==
            IF is_itm /\ ~is_index
            THEN (IF deriv_buy_sell = "Buy" THEN "A" ELSE "E")
            ELSE ""
    IN  [Underlying |-> OptionUnderlying(row),
         Symbol |-> row.Ticker,
         Expiry |-> row.Expiry,
         Buy_Sell |-> deriv_buy_sell,
         Strategy |-> deriv_strategy,
         Position |-> Abs(row.Lots),
         Price |-> deriv_price,
         Type |-> option_type,
         Strike |-> strike,
         Lot_Size |-> row.Lot_Size,
         tradenotes |-> tradenotes]

\* tax charged whatever the side of the position
OptionStt_AnySide(position, cash_quantity, intrinsic_value) ==
    cash_quantity * Max0(intrinsic_value) * OPT_STT_RATE

\* the futures rate applied to an option
OptionStt_FuturesRate(position, cash_quantity, intrinsic_value) ==
    IF position > 0 THEN cash_quantity * Max0(intrinsic_value) * FUT_STT_RATE ELSE 0

\* stt before rounding, in units of 1e-8
OptionStt(position, cash_quantity, intrinsic_value) ==
    IF position > 0 THEN cash_quantity * Max0(intrinsic_value) * OPT_STT_RATE ELSE 0

\* stamp_duty before rounding, in units of 1e-8
OptionStampDuty(position, cash_quantity, strike) ==
    IF position > 0 THEN cash_quantity * strike * OPT_STAMP_RATE ELSE 0

\* a Put delivered on the side of a Call
CashBuySell_CallRule(option_type, position) ==
    IF position > 0 THEN "Buy" ELSE "Sell"

\* cash_buy_sell: long calls buy stock, long puts sell stock
CashBuySell(option_type, position) ==
    IF option_type = "Call"
    THEN (IF position > 0 THEN "Buy" ELSE "Sell")
    ELSE (IF position > 0 THEN "Sell" ELSE "Buy")

OptionCash(row, last_price) ==
    LET strike == OptionStrike(row)
        option_type == row.Security_Type
        cash_quantity == Abs(row.Lots) * row.Lot_Size
        cash_buy_sell == CashBuySell(option_type, row.Lots)
        intrinsic_value ==
            IF option_type = "Call" THEN last_price - strike ELSE strike - last_price
        stt == OptionStt(row.Lots, cash_quantity, intrinsic_value)
        stamp_duty == OptionStampDuty(row.Lots, cash_quantity, strike)
    IN  [Underlying |-> OptionUnderlying(row),
         Symbol |-> OptionUnderlying(row),
         Expiry |-> "",
         Buy_Sell |-> cash_buy_sell,
         Strategy |-> "EQLO2",
         Position |-> cash_quantity,
         Price |-> strike,
         Type |-> "CASH",
         Strike |-> "",
         Lot_Size |-> "",
         tradenotes |-> IF row.Lots > 0 THEN "E" ELSE "A",
         STT |-> Round2(stt, RATED_PER_CENT),
         Stamp_Duty |-> Round2(stamp_duty, RATED_PER_CENT),
         Taxes |-> Round2(stt + stamp_duty, RATED_PER_CENT)]

ProcessOption(row, last_price) ==
    LET is_index == IsIndexProduct(row.Ticker)
        is_itm == IsOptionITM(row.Security_Type, OptionStrike(row), last_price)
    IN  [deriv |-> OptionDerivative(row, last_price, is_index, is_itm),
         cash |-> IF is_itm /\ ~is_index THEN OptionCash(row, last_price) ELSE None]

----------------------------------------------------------------------------
(* ExpiryDeliveryGenerator._generate_cash_summary *)

RECURSIVE SumOver(_, _)
SumOver(Val(_), seq) ==
    IF seq = <<>> THEN 0 ELSE Val(Head(seq)) + SumOver(Val, Tail(seq))

\* cash_df['Underlying'].unique(): first occurrences, in order
RECURSIVE Unique(_)
Unique(seq) ==
    IF seq = <<>> THEN <<>>
    ELSE LET before == Unique(SubSeq(seq, 1, Len(seq) - 1))
             last == seq[Len(seq)]
         IN  IF \E i \in 1..Len(before) : before[i] = last
             THEN before ELSE Append(before, last)

\* the underlyings taken last occurrence first
CashUnderlyings_Reversed(cash_df) ==
    LET found == Unique([i \in 1..Len(cash_df) |-> cash_df[i].Underlying])
    IN  [i \in 1..Len(found) |-> found[Len(found) + 1 - i]]

CashUnderlyings(cash_df) == Unique([i \in 1..Len(cash_df) |-> cash_df[i].Underlying])

SUMMARY_COLUMNS ==
    {"Underlying", "Type", "Buy_Sell", "Quantity", "Price", "Consideration",
     "STT", "Stamp_Duty", "Taxes", "TradeNotes"}

FilledRow(text) == [col \in SUMMARY_COLUMNS |-> text]

TradeRow(underlying, trade) ==
    LET quantity == trade.Position
        price == trade.Price
        consideration ==
            IF trade.Buy_Sell = "Buy" THEN quantity * price ELSE -(quantity * price)
    IN  [Underlying |-> underlying,
         Type |-> "Trade",
         Buy_Sell |-> trade.Buy_Sell,
         Quantity |-> quantity,
         Price |-> price,
         Consideration |-> Round2(consideration, MILS_PER_CENT),
         STT |-> trade.STT,
         Stamp_Duty |-> trade.Stamp_Duty,
         Taxes |-> trade.Taxes,
         TradeNotes |-> trade.tradenotes]

TradeValue(trade) == trade.Position * trade.Price
TradeQuantity(trade) == trade.Position
TradeStt(trade) == trade.STT
TradeStamp(trade) == trade.Stamp_Duty
TradeTaxes(trade) == trade.Taxes

\* the totals of one underlying's trades; net_consideration is in mils, unrounded
UnderlyingTotals(cash_df, underlying) ==
    LET IsOf(trade) == trade.Underlying = underlying
        IsBuy(trade) == trade.Buy_Sell = "Buy"
        IsSell(trade) == trade.Buy_Sell = "Sell"
        underlying_trades == SelectSeq(cash_df, IsOf)
        buy_trades == SelectSeq(underlying_trades, IsBuy)
        sell_trades == SelectSeq(underlying_trades, IsSell)
    IN  [trades |-> underlying_trades,
         net_qty |-> SumOver(TradeQuantity, buy_trades) - SumOver(TradeQuantity, sell_trades),
         net_consideration |->
             SumOver(TradeValue, buy_trades) - SumOver(TradeValue, sell_trades),
         total_stt |-> SumOver(TradeStt, underlying_trades),
         total_stamp |-> SumOver(TradeStamp, underlying_trades),
         total_taxes |-> SumOver(TradeTaxes, underlying_trades)]

NetDeliverableRow(underlying, totals) ==
    [Underlying |-> underlying,
     Type |-> "NET DELIVERABLE",
     Buy_Sell |-> "NET",
     Quantity |-> totals.net_qty,
     Price |-> "",
     Consideration |-> Round2(totals.net_consideration, MILS_PER_CENT),
     STT |-> totals.total_stt,
     Stamp_Duty |-> totals.total_stamp,
     Taxes |-> totals.total_taxes,
     TradeNotes |-> ""]

\* the rows of one underlying: its Trade rows, NET DELIVERABLE, blank separator
UnderlyingRows(underlying, totals, is_last) ==
    [i \in 1..Len(totals.trades) |-> TradeRow(underlying, totals.trades[i])]
    \o <<NetDeliverableRow(underlying, totals)>>
    \o (IF is_last THEN <<>> ELSE <<FilledRow("")>>)

\* grand_total_consideration += net_consideration, over the underlyings: mils
GrandTotalConsideration(totals) ==
    LET Net(t) == t.net_consideration IN SumOver(Net, totals)

GrandTotalRow(totals) ==
    LET Stt(t) == t.total_stt
        Stamp(t) == t.total_stamp
        Taxes(t) == t.total_taxes
    IN  [Underlying |-> "GRAND TOTAL",
         Type |-> "ALL POSITIONS",
         Buy_Sell |-> "",
         Quantity |-> "",
         Price |-> "",
         Consideration |-> Round2(GrandTotalConsideration(totals), MILS_PER_CENT),
         STT |-> SumOver(Stt, totals),
         Stamp_Duty |-> SumOver(Stamp, totals),
         Taxes |-> SumOver(Taxes, totals),
         TradeNotes |-> ""]

RECURSIVE SummaryRows(_, _, _)
SummaryRows(underlyings, totals, k) ==
    IF k > Len(underlyings) THEN <<>>
    ELSE UnderlyingRows(underlyings[k], totals[k], k = Len(underlyings))
         \o SummaryRows(underlyings, totals, k + 1)

GenerateCashSummary(cash_df) ==
    IF cash_df = <<>> THEN <<>>
    ELSE LET underlyings == CashUnderlyings(cash_df)
             totals == [k \in 1..Len(underlyings) |->
                          UnderlyingTotals(cash_df, underlyings[k])]
         IN  SummaryRows(underlyings, totals, 1)
             \o <<FilledRow("---"), GrandTotalRow(totals)>>

----------------------------------------------------------------------------
(* ExpiryDeliveryGenerator._process_expiry_group *)

ErrorEntry(row, reason, expiry_date) ==
    [Symbol |-> row.Symbol, Ticker |-> row.Ticker, Reason |-> reason,
     Expiry |-> expiry_date]

\* lists kept on the generator between calls instead of local ones
NewLists_Carried ==
    IF results.ran /\ DOMAIN results.value # {}
    THEN LET d == CHOOSE d \in DOMAIN results.value : TRUE
         IN  [derivatives |-> results.value[d].derivatives,
              cash_trades |-> results.value[d].cash_trades,
              errors |-> results.value[d].errors,
              steps |-> <<>>]
    ELSE [derivatives |-> <<>>, cash_trades |-> <<>>, errors |-> <<>>, steps |-> <<>>]

\* the lists a call starts from
NewLists == [derivatives |-> <<>>, cash_trades |-> <<>>, errors |-> <<>>, steps |-> <<>>]

\* float(row['Strike']) on a cell that is not NaN and holds no number raises
\* ValueError (line 244); the message is str(e)
StrikeRaises(row) == row.Strike.kind = "str"
StrikeError(row) == <<"could not convert string to float: ", row.Strike.s>>

\* what one iteration recorded: the row, the price resolved for it, the legs
\* appended and the error appended
Step(row, price, deriv, cash, error) ==
    [row |-> row, price |-> price, deriv |-> deriv, cash |-> cash, error |-> error]

\* a failing position skipped without an entry in errors_list
Failed_Silent(lists, row, price, reason, expiry_date) ==
    [lists EXCEPT !.steps = Append(@, Step(row, price, None, None,
                                          ErrorEntry(row, reason, expiry_date)))]

\* the iteration ends with an entry in errors_list and no leg (lines 100-106,
\* 114-120 and the except clause, 127-133)
Failed(lists, row, price, reason, expiry_date) ==
    LET entry == ErrorEntry(row, reason, expiry_date)
    IN  [lists EXCEPT !.errors = Append(@, entry),
                      !.steps = Append(@, Step(row, price, None, None, entry))]

\* the iteration ends with its legs appended (lines 122-125)
Appended(lists, row, price, out) ==
    [derivatives |-> Append(lists.derivatives, out.deriv),
     cash_trades |-> IF out.cash # None
                     THEN Append(lists.cash_trades, out.cash)
                     ELSE lists.cash_trades,
     errors |-> lists.errors,
     steps |-> Append(lists.steps, Step(row, price, out.deriv, out.cash, None))]

\* one iteration of the loop over group_df.iterrows(); steps records, per row,
\* what the iteration produced
ProcessRow(lists, row, prices, expiry_date) ==
    LET last_price == GetPriceForPosition(row, prices)
    IN  IF last_price = None
        THEN Failed(lists, row, None, <<"No price available">>, expiry_date)
        ELSE IF row.Security_Type = "Futures"
        THEN Appended(lists, row, last_price, ProcessFutures(row, last_price.v))
        ELSE IF row.Security_Type \in {"Call", "Put"}
        THEN IF StrikeRaises(row)
             THEN Failed(lists, row, last_price, StrikeError(row), expiry_date)
             ELSE Appended(lists, row, last_price, ProcessOption(row, last_price.v))
        ELSE Failed(lists, row, last_price,
                    <<"Unknown security type: ", row.Security_Type>>, expiry_date)

\* the loop left at the first position that fails
RECURSIVE RowLoop_Abort(_, _, _, _)
RowLoop_Abort(lists, group_df, prices, expiry_date) ==
    IF group_df = <<>> THEN lists
    ELSE LET after == ProcessRow(lists, Head(group_df), prices, expiry_date)
         IN  IF Len(after.errors) > Len(lists.errors) THEN after
             ELSE RowLoop_Abort(after, Tail(group_df), prices, expiry_date)

RECURSIVE RowLoop(_, _, _, _)
RowLoop(lists, group_df, prices, expiry_date) ==
    IF group_df = <<>> THEN lists
    ELSE RowLoop(ProcessRow(lists, Head(group_df), prices, expiry_date),
                 Tail(group_df), prices, expiry_date)

ProcessExpiryGroup(group_df, prices, expiry_date) ==
    LET lists == RowLoop(NewLists, group_df, prices, expiry_date)
    IN  [derivatives |-> lists.derivatives,
         cash_trades |-> lists.cash_trades,
         cash_summary |-> GenerateCashSummary(lists.cash_trades),
         errors |-> lists.errors,
         position_count |-> Len(group_df),
         steps |-> lists.steps]

----------------------------------------------------------------------------
(* ExpiryDeliveryGenerator.process_positions_by_expiry *)

\* pd.to_datetime on one 'Expiry' cell: a Timestamp of the same date and time
ToDatetime(expiry) == [expiry EXCEPT !.kind = "ts"]

\* the local name stays bound to the caller's object
CopyFrame_Alias(df) == [caller |-> df, local |-> df, shared |-> TRUE]

\* positions_df = positions_df.copy(): the local name is bound to a new object
CopyFrame(df) == [caller |-> df, local |-> df, shared |-> FALSE]

\* positions_df['Expiry'] = pd.to_datetime(positions_df['Expiry'])
AssignExpiry(frames) ==
    LET converted == [i \in 1..Len(frames.local) |->
                        [frames.local[i] EXCEPT !.Expiry = ToDatetime(@)]]
    IN  [caller |-> IF frames.shared THEN converted ELSE frames.caller,
         local |-> converted,
         shared |-> frames.shared]

\* positions_df.groupby(positions_df['Expiry'].dt.date): keys, and rows in order
ExpiryDates(df) == {df[i].Expiry.date : i \in 1..Len(df)}

\* only the rows whose expiry has no time of day
GroupOf_Midnight(df, expiry_date) ==
    LET InGroup(row) == row.Expiry.date = expiry_date /\ row.Expiry.time = 0
    IN  SelectSeq(df, InGroup)

GroupOf(df, expiry_date) ==
    LET InGroup(row) == row.Expiry.date = expiry_date
    IN  SelectSeq(df, InGroup)

\* results[expiry_date] = {...}
ExpiryResult(group_out, position_type, expiry_date) ==
    [position_type |-> position_type,
     expiry_date |-> expiry_date,
     derivatives |-> group_out.derivatives,
     cash_trades |-> group_out.cash_trades,
     cash_summary |-> group_out.cash_summary,
     errors |-> group_out.errors,
     position_count |-> group_out.position_count]

\* the caller's frame after the call, the dictionary the call returns, and (as
\* history) what every loop iteration produced
ProcessPositionsByExpiryResult(df, prices, position_type) ==
    IF df = <<>>
    THEN [frame |-> df, results |-> [d \in {} |-> None], steps |-> [d \in {} |-> None]]
    ELSE LET frames == AssignExpiry(CopyFrame(df))
             positions_df == frames.local
             out == [expiry_date \in ExpiryDates(positions_df) |->
                       ProcessExpiryGroup(GroupOf(positions_df, expiry_date), prices,
                                          expiry_date)]
         IN  [frame |-> frames.caller,
              results |->
                [expiry_date \in DOMAIN out |->
                    ExpiryResult(out[expiry_date], position_type, expiry_date)],
              steps |-> [expiry_date \in DOMAIN out |-> out[expiry_date].steps]]

----------------------------------------------------------------------------
(* Input domains of the settlement calculator *)

MaxRows == 2        \* rows of the DataFrame given to process_positions_by_expiry

STRIKE_100 == 100000        \* 100.000
EXPIRY_1_TEXT == [kind |-> "str", date |-> 1, time |-> 9]
EXPIRY_1_TS == [kind |-> "ts", date |-> 1, time |-> 0]
EXPIRY_2_TS == [kind |-> "ts", date |-> 2, time |-> 0]

Row(ticker, symbol, underlying, security_type, lots, lot_size, expiry, yahoo) ==
    [Ticker |-> ticker, Symbol |-> symbol, Security_Type |-> security_type,
     Expiry |-> expiry,
     Strike |-> IF security_type = "Futures" THEN Num(0) ELSE Num(STRIKE_100),
     Lots |-> lots, Lot_Size |-> lot_size, Underlying |-> underlying,
     Yahoo_Price |-> yahoo]

\* positions of a single-stock name, of a second one, and of an index product;
\* then an index Put, a security type the calculator does not know, a strike
\* that is not a number, and a symbol the price source does not list; the
\* options of the second expiry carry an attached price equal to their strike
Catalogue ==
    <<Row(RIL_FUT, RIL, Str(RIL_EQ), "Futures", -2, 3, EXPIRY_1_TS, Absent),
      Row(RIL_FUT, RIL, Str(RIL_EQ), "Futures", 1, 3, EXPIRY_1_TS, Absent),
      Row(RIL_FUT, RIL, Str(RIL_EQ), "Call", -2, 3, EXPIRY_1_TS, Absent),
      Row(RIL_FUT, RIL, Str(RIL_EQ), "Call", 1, 3, EXPIRY_1_TS, Absent),
      Row(RIL_FUT, RIL, Str(RIL_EQ), "Put", -2, 3, EXPIRY_1_TS, Absent),
      Row(RIL_FUT, RIL, Str(RIL_EQ), "Put", 1, 3, EXPIRY_1_TS, Absent),
      Row(TCS_FUT, TCS, Str(TCS_EQ), "Futures", 1, 1, EXPIRY_1_TS, Absent),
      Row(TCS_FUT, TCS, NaN, "Put", -2, 1, EXPIRY_1_TEXT, Str(S_N_A)),
      Row(NZ_FUT, NIFTY, Str(NZ_INDEX), "Futures", 1, 3, EXPIRY_2_TS, Absent),
      Row(NZ_FUT, NIFTY, Str(NZ_INDEX), "Call", 1, 3, EXPIRY_1_TS, Num(150000)),
      Row(RIL_FUT, RIL, Str(RIL_EQ), "Call", 1, 3, EXPIRY_2_TS, Num(STRIKE_100)),
      Row(NZ_FUT, NIFTY, Str(NZ_INDEX), "Put", -1, 3, EXPIRY_1_TS, Absent),
      Row(TCS_FUT, TCS, Str(TCS_EQ), "Swap", 1, 1, EXPIRY_1_TS, Absent),
      [Row(RIL_FUT, RIL, Str(RIL_EQ), "Put", 1, 3, EXPIRY_1_TS, Absent)
          EXCEPT !.Strike = Str(S_N_A)],
      Row(TCS_FUT, TATA, Str(TCS_EQ), "Futures", -1, 1, EXPIRY_1_TS, Absent),
      Row(RIL_FUT, RIL, Str(RIL_EQ), "Put", 1, 3, EXPIRY_2_TS, Num(STRIKE_100))>>

FrameRows == {Catalogue[i] : i \in 1..Len(Catalogue)}

\* the rows of the catalogue at the given indices, in catalogue order
RECURSIVE Selection(_)
Selection(indices) ==
    IF indices = {} THEN <<>>
    ELSE LET first == CHOOSE i \in indices : \A j \in indices : i <= j
         IN  <<Catalogue[first]>> \o Selection(indices \ {first})

Reverse(seq) == [i \in 1..Len(seq) |-> seq[Len(seq) + 1 - i]]

\* a position set: up to MaxRows distinct positions, in catalogue order or in
\* the reverse order
Frames ==
    LET chosen == {indices \in SUBSET (1..Len(Catalogue)) :
                      Cardinality(indices) <= MaxRows}
    IN  {Selection(indices) : indices \in chosen}
        \cup {Reverse(Selection(indices)) : indices \in chosen}

\* symbol -> last price, in mils
PriceMaps ==
    {[s \in {RIL, TCS, NIFTY} |-> IF s = NIFTY THEN 150000 ELSE 100004],
     [s \in {RIL, TCS} |-> IF s = RIL THEN 150000 ELSE 4950],
     [s \in {RIL} |-> 50000]}

PositionTypes == {"Pre-Trade", "Post-Trade"}

\* nothing returned yet / the value a call returned
NoRun == [ran |-> FALSE]
Ran(value) == [ran |-> TRUE, value |-> value]

----------------------------------------------------------------------------
(* The settlement calculator driven by its caller *)

ProcessPositionsByExpiry(position_type) ==
    LET ret == ProcessPositionsByExpiryResult(input_df, input_prices, position_type)
    IN  /\ input_df' = ret.frame
        /\ results' = Ran(ret.results)
        /\ steps' = Ran(ret.steps)
        /\ previous' = results
        /\ UNCHANGED <<input_prices, usdinr_rate, positions, cum, call>>

InitSettle ==
    /\ positions = InitializedStore(<<CHOOSE s \in Seeds :
                        /\ s.security_type = "Futures"
                        /\ s.position_lots = MaxLots
                        /\ s.lot_size > 0>>)
    /\ cum = [t \in AllTickers |-> IF t \in DOMAIN positions THEN MaxLots ELSE 0]
    /\ call = [name |-> "initialize_from_positions", ticker |-> <<>>,
               quantity_change |-> 0, trade_object |-> None,
               snapshot |-> <<>>]
    /\ input_df \in Frames
    /\ input_prices \in PriceMaps
    /\ usdinr_rate = DEFAULT_USDINR
    /\ results = NoRun
    /\ previous = NoRun
    /\ steps = NoRun

NextSettle == \E position_type \in PositionTypes : ProcessPositionsByExpiry(position_type)

SpecSettle == InitSettle /\ [][NextSettle]_vars

----------------------------------------------------------------------------
(* Properties of the position store *)

Held == DOMAIN positions

\* the strategy table: Futures/Call long FULO, short FUSH; Put inverted
StrategyTable(security_type, lots) ==
    IF security_type = "Put"
    THEN (IF lots > 0 THEN "FUSH" ELSE "FULO")
    ELSE (IF lots > 0 THEN "FULO" ELSE "FUSH")

\* C1 - position closure: after update_position calls on an instrument whose
\* cumulative signed lots (initial lots plus every applied delta) is 0 within
\* 0.0001, the instrument is absent from the store.
C1_PositionClosure ==
    call.name = "update_position" =>
        (Abs(cum[call.ticker]) < EPSILON => call.ticker \notin Held)

\* C2 - strategy invariant: every held position's strategy is the table's value
\* for (security_type, sign of lots).
C2_StrategyInvariant ==
    \A t \in Held :
        positions[t].lots # 0 =>
            positions[t].strategy =
                StrategyTable(positions[t].security_type, positions[t].lots)

\* C3 - no zero row: no held position has |lots| < 0.0001.
C3_NoZeroRow ==
    \A t \in Held : Abs(positions[t].lots) >= EPSILON

\* C4 - derived fields: every held position has qty = lots * lot_size and
\* direction Long / Short / Flat for lots > 0 / < 0 / = 0.
C4_DerivedFields ==
    \A t \in Held :
        /\ positions[t].qty = positions[t].lots * positions[t].lot_size
        /\ positions[t].direction =
              IF positions[t].lots > 0 THEN "Long"
              ELSE IF positions[t].lots < 0 THEN "Short" ELSE "Flat"

\* C5 - a trade on a held instrument sets new_lots = old_lots + delta; the
\* position stays under the same key with lots = new_lots when
\* |new_lots| >= 0.0001 (also when the sign flips) and is removed exactly when
\* |new_lots| < 0.0001.
C5_TradeOnHeld ==
    [][(call'.name = "update_position" /\ call'.ticker \in Held) =>
          LET t == call'.ticker
              new_lots == positions[t].lots + call'.quantity_change
          IN  IF Abs(new_lots) >= EPSILON
              THEN t \in DOMAIN positions' /\ positions'[t].lots = new_lots
              ELSE t \notin DOMAIN positions']_vars

\* a trade overshot zero: the held long became a short under the same key
C5_Witness ==
    /\ call.name = "update_position"
    /\ call.ticker \in Held
    /\ positions[call.ticker].lots < 0
    /\ positions[call.ticker].lots - call.quantity_change > 0

----------------------------------------------------------------------------
(* Properties of the settlement calculator *)

ExpiryKeys == IF results.ran THEN DOMAIN results.value ELSE {}

\* every loop iteration of the last call, over all expiry groups
AllSteps ==
    IF steps.ran
    THEN UNION {{steps.value[d][i] : i \in 1..Len(steps.value[d])} : d \in DOMAIN steps.value}
    ELSE {}

\* iterations that produced a cash leg
CashSteps == {s \in AllSteps : s.cash # None}

\* C6 - the settlement calculator is read-only: a process_positions_by_expiry
\* call leaves the position set it is given, the position store and the prices
\* mapping unchanged.
C6_ReadOnly ==
    [][/\ input_df' = input_df
       /\ input_prices' = input_prices
       /\ positions' = positions]_vars

\* a call has run on a frame that holds an 'Expiry' cell the call converts
C6_Witness ==
    /\ results.ran
    /\ \E i \in 1..Len(input_df) : input_df[i].Expiry.kind = "str"
    /\ \E d \in ExpiryKeys : results.value[d].derivatives # <<>>

\* the fields of an expiry result that C7 names
Outcome(result) ==
    [derivatives |-> result.derivatives,
     cash_trades |-> result.cash_trades,
     cash_summary |-> result.cash_summary,
     errors |-> result.errors,
     position_count |-> result.position_count]

NetRowsConsideration(summary) ==
    LET IsNet(row) == row.Type = "NET DELIVERABLE"
        Consideration(row) == row.Consideration
    IN  SumOver(Consideration, SelectSeq(summary, IsNet))

\* C8 - grand total consistency: the GRAND TOTAL row's Consideration equals the
\* sum of the Consideration of all NET DELIVERABLE rows of the same summary.
C8_GrandTotal ==
    \A d \in ExpiryKeys :
        LET summary == results.value[d].cash_summary
        IN  summary # <<>> =>
                /\ summary[Len(summary)].Underlying = "GRAND TOTAL"
                /\ summary[Len(summary)].Consideration = NetRowsConsideration(summary)

IsOptionRow(row) == row.Security_Type \in {"Call", "Put"}

\* C9 - tax non-negativity: every cash leg has STT >= 0 and stamp duty >= 0, and
\* both are 0 when the leg comes from a short option position.
C9_TaxNonNegative ==
    /\ \A d \in ExpiryKeys :
          \A i \in 1..Len(results.value[d].cash_trades) :
              /\ results.value[d].cash_trades[i].STT >= 0
              /\ results.value[d].cash_trades[i].Stamp_Duty >= 0
    /\ \A s \in CashSteps :
          /\ s.cash.STT >= 0
          /\ s.cash.Stamp_Duty >= 0
          /\ (IsOptionRow(s.row) /\ s.row.Lots < 0) =>
                (s.cash.STT = 0 /\ s.cash.Stamp_Duty = 0)

\* a short option was assigned, and a long one exercised with tax due
C9_Witness ==
    /\ \E s \in CashSteps : IsOptionRow(s.row) /\ s.row.Lots < 0
    /\ \E s \in CashSteps : IsOptionRow(s.row) /\ s.row.Lots > 0 /\ s.cash.STT > 0

\* long ITM single-stock options that produced a cash leg
LongOptionSteps == {s \in CashSteps : IsOptionRow(s.row) /\ s.row.Lots > 0}

\* 0.00125 x quantity x max(0, intrinsic value), in units of 1e-8
ExactStt(s) ==
    LET quantity == Abs(s.row.Lots) * s.row.Lot_Size
        intrinsic == IF s.row.Security_Type = "Call"
                     THEN s.price.v - s.row.Strike.v
                     ELSE s.row.Strike.v - s.price.v
    IN  OPT_STT_RATE * quantity * Max0(intrinsic)

\* 0.00003 x quantity x strike, in units of 1e-8
ExactStamp(s) ==
    OPT_STAMP_RATE * (Abs(s.row.Lots) * s.row.Lot_Size) * s.row.Strike.v

NamedIndex(ticker) ==
    \/ Contains(S_INDEX, Upper(ticker))
    \/ \E root \in {NIFTY, S_NZ, S_AF1, S_NSEBANK} : Contains(root, Upper(ticker))

\* iterations over a Futures position of a single stock with a resolved price
StockFuturesSteps ==
    {s \in AllSteps : /\ s.row.Security_Type = "Futures"
                      /\ s.price # None
                      /\ ~NamedIndex(s.row.Ticker)}

\* the side, quantity and price C11 names
FuturesCashShape(s) ==
    /\ s.cash # None
    /\ s.deriv # None
    /\ s.cash.Buy_Sell = (IF s.row.Lots > 0 THEN "Buy" ELSE "Sell")
    /\ s.cash.Buy_Sell # s.deriv.Buy_Sell
    /\ s.cash.Position = Abs(s.row.Lots) * s.row.Lot_Size
    /\ s.cash.Price = s.price.v

\* 0.001 x quantity x price and 0.00002 x quantity x price, in units of 1e-8
ExactFuturesStt(s) == FUT_STT_RATE * (Abs(s.row.Lots) * s.row.Lot_Size) * s.price.v
ExactFuturesStamp(s) == FUT_STAMP_RATE * (Abs(s.row.Lots) * s.row.Lot_Size) * s.price.v

\* C11 as stated - every single-stock Futures position with a resolved price
\* gets a cash leg on the side opposite to the derivative leg's closing side
\* (Buy for a long, Sell for a short), with quantity = |lots| x lot_size,
\* price = settlement price, STT = 0.001 x quantity x price and
\* stamp duty = 0.00002 x quantity x price exactly.
C11_ExactFuturesCash ==
    \A s \in StockFuturesSteps :
        /\ FuturesCashShape(s)
        /\ s.cash.STT * RATED_PER_CENT = ExactFuturesStt(s)
        /\ s.cash.Stamp_Duty * RATED_PER_CENT = ExactFuturesStamp(s)

\* C11 as amended - the same cash leg, with STT and stamp duty the two
\* products rounded to 2 decimals: whole cents within half a cent of the
\* exact product.
C11_RoundedFuturesCash ==
    \A s \in StockFuturesSteps :
        /\ FuturesCashShape(s)
        /\ 2 * Abs(s.cash.STT * RATED_PER_CENT - ExactFuturesStt(s)) <= RATED_PER_CENT
        /\ 2 * Abs(s.cash.Stamp_Duty * RATED_PER_CENT - ExactFuturesStamp(s))
              <= RATED_PER_CENT

\* a long and a short stock future were settled, one with a tax that is not a
\* whole number of cents
C11_Witness ==
    /\ \E s \in StockFuturesSteps : s.row.Lots < 0 /\ s.cash # None
    /\ \E s \in StockFuturesSteps :
          /\ s.row.Lots > 0
          /\ s.cash # None
          /\ s.cash.STT > 0
          /\ s.cash.STT * RATED_PER_CENT # ExactFuturesStt(s)

\* iterations over a Futures position that produced a derivative leg
FuturesSteps == {s \in AllSteps : s.row.Security_Type = "Futures" /\ s.deriv # None}

\* C12 - the derivative leg of a Futures position closes with Sell if lots > 0
\* and Buy if lots < 0, and its strategy tag is flipped: FUSH when closing a
\* long, FULO when closing a short.
C12_FuturesFlip ==
    \A s \in FuturesSteps :
        /\ s.row.Lots > 0 => (s.deriv.Buy_Sell = "Sell" /\ s.deriv.Strategy = "FUSH")
        /\ s.row.Lots < 0 => (s.deriv.Buy_Sell = "Buy" /\ s.deriv.Strategy = "FULO")

\* the claims' moneyness: a Call is ITM iff price > strike, a Put iff price < strike
ClaimedITM(s) ==
    /\ s.row.Strike.kind = "num"
    /\ IF s.row.Security_Type = "Call" THEN s.price.v > s.row.Strike.v
       ELSE s.price.v < s.row.Strike.v

\* iterations over an option position with a resolved price and a numeric strike
PricedOptionSteps ==
    {s \in AllSteps : IsOptionRow(s.row) /\ s.price # None /\ s.row.Strike.kind = "num"}

\* iterations over an ITM single-stock option position
ITMStockOptionSteps ==
    {s \in PricedOptionSteps : ClaimedITM(s) /\ ~NamedIndex(s.row.Ticker)}

\* C13 - the cash leg of an ITM single-stock option has price = strike and is
\* on the side Buy for a long Call, Sell for a short Call, Sell for a long Put
\* and Buy for a short Put.
C13_CashAtStrike ==
    \A s \in ITMStockOptionSteps :
        /\ s.cash # None
        /\ s.cash.Price = s.row.Strike.v
        /\ (s.row.Security_Type = "Call" /\ s.row.Lots > 0) => s.cash.Buy_Sell = "Buy"
        /\ (s.row.Security_Type = "Call" /\ s.row.Lots < 0) => s.cash.Buy_Sell = "Sell"
        /\ (s.row.Security_Type = "Put" /\ s.row.Lots > 0) => s.cash.Buy_Sell = "Sell"
        /\ (s.row.Security_Type = "Put" /\ s.row.Lots < 0) => s.cash.Buy_Sell = "Buy"

\* a long Put was exercised and a short Put assigned in the same expiry
C13_Witness ==
    /\ \E s \in ITMStockOptionSteps :
          s.row.Security_Type = "Put" /\ s.row.Lots > 0 /\ s.cash # None
    /\ \E s \in ITMStockOptionSteps :
          s.row.Security_Type = "Put" /\ s.row.Lots < 0 /\ s.cash # None

\* the annotation opposite to a given one
OppositeNote(note) == IF note = "A" THEN "E" ELSE "A"

\* C14 - for an ITM single-stock option the derivative leg's tradenote is "A"
\* when it closes with Buy and "E" when it closes with Sell, and the cash leg
\* of the same position carries the opposite annotation.
C14_OppositeNotes ==
    \A s \in ITMStockOptionSteps :
        /\ s.deriv # None /\ s.cash # None
        /\ s.deriv.tradenotes = (IF s.deriv.Buy_Sell = "Buy" THEN "A" ELSE "E")
        /\ s.cash.tradenotes = OppositeNote(s.deriv.tradenotes)

\* iterations over a Futures, Call or Put position of an index product for
\* which a price resolved and whose strike is a number
IndexSteps ==
    {s \in AllSteps : /\ NamedIndex(s.row.Ticker)
                      /\ s.row.Security_Type \in {"Futures", "Call", "Put"}
                      /\ s.price # None
                      /\ s.row.Strike.kind = "num"}

\* C15 - no cash leg is ever produced for an index product: a Futures, Call or
\* Put position whose ticker is classified as an index product gets a
\* derivative leg and no cash trade, ITM or not, and no cash trade of any
\* expiry result is on an index underlying.
C15_NoIndexCash ==
    /\ \A s \in IndexSteps : s.deriv # None /\ s.cash = None
    /\ \A d \in ExpiryKeys :
          \A i \in 1..Len(results.value[d].cash_trades) :
              ~NamedIndex(results.value[d].cash_trades[i].Underlying)

\* an ITM index Call was settled next to a stock position that got a cash leg
C15_Witness ==
    /\ \E s \in IndexSteps : s.row.Security_Type = "Call" /\ ClaimedITM(s)
    /\ \E s \in CashSteps : ~NamedIndex(s.row.Ticker)

\* max(0, price - strike) for a Call, max(0, strike - price) for a Put
ClaimedIntrinsic(s) ==
    IF s.row.Security_Type = "Call" THEN Max0(s.price.v - s.row.Strike.v)
    ELSE Max0(s.row.Strike.v - s.price.v)

\* C16 - the option derivative leg's price is the intrinsic value exactly when
\* the instrument is an index product and the option is ITM; in every other
\* case (single-stock, or not ITM) it is 0.
C16_DerivativePrice ==
    \A s \in PricedOptionSteps :
        /\ s.deriv # None
        /\ s.deriv.Price = IF NamedIndex(s.row.Ticker) /\ ClaimedITM(s)
                           THEN ClaimedIntrinsic(s) ELSE 0

\* an ITM index option settled at its intrinsic value next to an ITM stock
\* option settled at 0
C16_Witness ==
    /\ \E s \in PricedOptionSteps :
          NamedIndex(s.row.Ticker) /\ ClaimedITM(s) /\ s.deriv.Price > 0
    /\ \E s \in ITMStockOptionSteps : s.deriv.Price = 0

\* the legs and the error entries that a group's iterations appended, in order
DerivativesOf(group_steps) ==
    LET HasLeg(s) == s.deriv # None
        kept == SelectSeq(group_steps, HasLeg)
    IN  [i \in 1..Len(kept) |-> kept[i].deriv]

CashTradesOf(group_steps) ==
    LET HasLeg(s) == s.cash # None
        kept == SelectSeq(group_steps, HasLeg)
    IN  [i \in 1..Len(kept) |-> kept[i].cash]

ErrorsOf(group_steps) ==
    LET HasError(s) == s.error # None
        kept == SelectSeq(group_steps, HasError)
    IN  [i \in 1..Len(kept) |-> kept[i].error]

\* no price is attached to the position
NoAttachedPrice(row) == row.Yahoo_Price.kind # "num"

\* the text of a cell is a key of the prices mapping
Listed(cell) == cell.kind = "str" /\ cell.s \in DOMAIN input_prices

\* the first word of the text of a cell is a key of the prices mapping
FirstWordListed(cell) ==
    /\ cell.kind = "str"
    /\ FirstToken(cell.s) # <<>>
    /\ FirstToken(cell.s) \in DOMAIN input_prices

\* no attached price, and neither the symbol nor the underlying is in prices
UnpricedAsStated(row) ==
    /\ NoAttachedPrice(row)
    /\ ~Listed(Str(row.Symbol))
    /\ ~Listed(row.Underlying)

\* ... and neither is the first word of the symbol or of the underlying
UnpricedByFirstWord(row) ==
    /\ UnpricedAsStated(row)
    /\ ~FirstWordListed(Str(row.Symbol))
    /\ ~FirstWordListed(row.Underlying)

\* one error entry "No price available" for the position, and no leg
OnlyNoPriceError(s) ==
    /\ s.error # None
    /\ s.error.Reason = <<"No price available">>
    /\ s.error.Ticker = s.row.Ticker
    /\ s.deriv = None
    /\ s.cash = None

\* every entry of a group's errors was appended by one iteration, one at most
ErrorsByIteration ==
    \A d \in ExpiryKeys : results.value[d].errors = ErrorsOf(steps.value[d])

\* C17 as stated - a position with no attached price and with neither its
\* symbol nor its underlying in the prices mapping yields exactly one error
\* entry "No price available" and contributes no derivative and no cash leg.
C17_NoPriceAsStated ==
    /\ ErrorsByIteration
    /\ \A s \in AllSteps : UnpricedAsStated(s.row) => OnlyNoPriceError(s)

\* C17 as amended - the same, for a position with no attached price and with
\* neither its symbol, its underlying, nor the first word of either in the
\* prices mapping.
C17_NoPriceByFirstWord ==
    /\ ErrorsByIteration
    /\ \A s \in AllSteps : UnpricedByFirstWord(s.row) => OnlyNoPriceError(s)

\* a position without a price was skipped next to one that was settled
C17_Witness ==
    /\ \E s \in AllSteps : UnpricedByFirstWord(s.row) /\ s.error # None
    /\ \E s \in AllSteps : s.deriv # None

\* the expiry dates of the rows of the frame the caller holds
InputDates == {input_df[i].Expiry.date : i \in 1..Len(input_df)}

\* the rows of that frame falling on one expiry date
InputCount(d) == Cardinality({i \in 1..Len(input_df) : input_df[i].Expiry.date = d})

\* the ways C18 names for a position to fail: no price, a security type outside
\* {Futures, Call, Put}, an exception while processing
FailsAsStated(s) ==
    \/ s.price = None
    \/ s.row.Security_Type \notin {"Futures", "Call", "Put"}
    \/ IsOptionRow(s.row) /\ s.row.Strike.kind # "num" /\ s.row.Strike.kind # "nan"

\* C18 - error isolation: the run never aborts (every expiry date of the input
\* gets a result and every position one loop iteration); a failing position is
\* recorded in its group's errors and gets no leg; every other position of the
\* group, earlier or later, gets its derivative leg; and the group's
\* derivatives, cash trades and errors are exactly what the iterations appended.
C18_ErrorIsolation ==
    results.ran =>
        /\ (input_df # <<>>) => ExpiryKeys = InputDates
        /\ \A d \in ExpiryKeys :
              LET group_steps == steps.value[d]
                  result == results.value[d]
              IN  /\ Len(group_steps) = InputCount(d)
                  /\ result.position_count = InputCount(d)
                  /\ result.derivatives = DerivativesOf(group_steps)
                  /\ result.cash_trades = CashTradesOf(group_steps)
                  /\ result.errors = ErrorsOf(group_steps)
                  /\ \A i \in 1..Len(group_steps) :
                        IF FailsAsStated(group_steps[i])
                        THEN /\ group_steps[i].error # None
                             /\ group_steps[i].error.Ticker = group_steps[i].row.Ticker
                             /\ group_steps[i].deriv = None
                             /\ group_steps[i].cash = None
                        ELSE /\ group_steps[i].error = None
                             /\ group_steps[i].deriv # None

\* in one expiry group an exception was followed by a settled position, or an
\* unknown security type by one
C18_Witness ==
    \E d \in ExpiryKeys :
        \E i, j \in 1..Len(steps.value[d]) :
            /\ i < j
            /\ steps.value[d][i].price # None
            /\ steps.value[d][i].error # None
            /\ steps.value[d][j].cash # None

----------------------------------------------------------------------------
(* Properties of the position store: rejected input *)

\* C19 - initialize rejects a seed whose lot_size <= 0: such a seed never
\* becomes a position of the store (the other seeds of the batch still do).
C19_InvalidSeedRejected ==
    \A t \in Held : positions[t].lot_size > 0

\* C20 - a trade on an instrument that is not held and that carries no trade
\* context is flagged as a data-quality error: no position is created with a
\* defaulted lot size, symbol or expiry, and the store is left unchanged.
C20_NoContextRejected ==
    [][(/\ call'.name = "update_position"
        /\ call'.ticker \notin Held
        /\ call'.trade_object = None) => positions' = positions]_vars

\* C21 - is_trade_opposing(ticker, q) is true iff the instrument is held and
\* the sign of its lots differs from the sign of q (one strictly positive, the
\* other strictly negative); it is false for an instrument not in the store,
\* and it never changes the store.
C21_TradeOpposing ==
    [][call'.name = "is_trade_opposing" =>
          /\ positions' = positions
          /\ call'.returned =
                (/\ call'.ticker \in Held
                 /\ \/ positions[call'.ticker].lots > 0 /\ call'.quantity_change < 0
                    \/ positions[call'.ticker].lots < 0 /\ call'.quantity_change > 0)
          /\ call'.ticker \notin Held => call'.returned = FALSE]_vars

\* a sale was found to oppose a held long
C21_Witness ==
    /\ call.name = "is_trade_opposing"
    /\ call.returned
    /\ call.ticker \in Held
    /\ positions[call.ticker].lots > 0

----------------------------------------------------------------------------
(* Properties of the cash summary *)

\* the cash trades of one underlying, and those on one side
TradesOn(cash_trades, underlying) ==
    LET IsOf(trade) == trade.Underlying = underlying
    IN  SelectSeq(cash_trades, IsOf)

SideOf(trades, side) ==
    LET IsSide(trade) == trade.Buy_Sell = side
    IN  SelectSeq(trades, IsSide)

\* sums over cash trades: quantity, quantity x price (mils), STT and stamp duty
SumQuantity(trades) == LET Q(t) == t.Position IN SumOver(Q, trades)
SumValue(trades) == LET V(t) == t.Position * t.Price IN SumOver(V, trades)
SumStt(trades) == LET T(t) == t.STT IN SumOver(T, trades)
SumStamp(trades) == LET T(t) == t.Stamp_Duty IN SumOver(T, trades)

\* the NET DELIVERABLE rows of a summary
NetRows(summary) ==
    {summary[k] : k \in {k \in 1..Len(summary) : summary[k].Type = "NET DELIVERABLE"}}

NetQuantityAsStated(row, trades) ==
    row.Quantity = SumQuantity(SideOf(trades, "Buy")) - SumQuantity(SideOf(trades, "Sell"))

NetConsiderationAsStated(row, trades) ==
    row.Consideration * MILS_PER_CENT =
        SumValue(SideOf(trades, "Buy")) - SumValue(SideOf(trades, "Sell"))

NetTaxesAsStated(row, trades) ==
    row.Taxes = SumStt(trades) + SumStamp(trades)

\* C22 - for each underlying of a cash summary the NET DELIVERABLE row has
\* quantity = sum of Buy quantities - sum of Sell quantities,
\* consideration = sum of quantity x price over Buys - the same over Sells, and
\* taxes = sum of STT + sum of stamp duty, over that underlying's cash trades.
C22_NetDeliverable ==
    \A d \in ExpiryKeys :
        \A row \in NetRows(results.value[d].cash_summary) :
            LET trades == TradesOn(results.value[d].cash_trades, row.Underlying)
            IN  /\ NetQuantityAsStated(row, trades)
                /\ NetConsiderationAsStated(row, trades)
                /\ NetTaxesAsStated(row, trades)

\* where an underlying first occurs in the cash trades
FirstSeen(cash_trades, underlying) ==
    CHOOSE i \in 1..Len(cash_trades) :
        /\ cash_trades[i].Underlying = underlying
        /\ \A j \in 1..(i - 1) : cash_trades[j].Underlying # underlying

\* the positions of an underlying's Trade rows and NET DELIVERABLE rows
TradeRowsAt(summary, underlying) ==
    {k \in 1..Len(summary) :
        summary[k].Type = "Trade" /\ summary[k].Underlying = underlying}

NetRowsAt(summary, underlying) ==
    {k \in 1..Len(summary) :
        summary[k].Type = "NET DELIVERABLE" /\ summary[k].Underlying = underlying}

\* the Trade rows of one underlying, in order
TradeRowsOn(summary, underlying) ==
    LET IsOf(row) == row.Type = "Trade" /\ row.Underlying = underlying
    IN  SelectSeq(summary, IsOf)

\* quantity x price of a trade, signed + for Buy and - for Sell, in mils
SignedValue(trade) ==
    IF trade.Buy_Sell = "Buy" THEN trade.Position * trade.Price
    ELSE -(trade.Position * trade.Price)

\* what C23 says of a summary but for the value of a Trade row's consideration:
\* Shown(row, trade) says how the row shows the trade
SummaryStructure(summary, cash_trades, Shown(_, _)) ==
    LET underlyings == {cash_trades[i].Underlying : i \in 1..Len(cash_trades)}
        IsTrade(row) == row.Type = "Trade"
        IsGrand(row) == row.Underlying = "GRAND TOTAL"
    IN  /\ Len(SelectSeq(summary, IsGrand)) = 1
        /\ IsGrand(summary[Len(summary)])
        /\ Len(SelectSeq(summary, IsTrade)) = Len(cash_trades)
        /\ \A u \in underlyings :
              LET rows == TradeRowsOn(summary, u)
                  trades == TradesOn(cash_trades, u)
              IN  /\ Len(rows) = Len(trades)
                  /\ \A j \in 1..Len(rows) :
                        /\ rows[j].Buy_Sell = trades[j].Buy_Sell
                        /\ rows[j].Quantity = trades[j].Position
                        /\ rows[j].Price = trades[j].Price
                        /\ Shown(rows[j], trades[j])
                  /\ Cardinality(NetRowsAt(summary, u)) = 1
                  /\ \A n \in NetRowsAt(summary, u) :
                        \A k \in TradeRowsAt(summary, u) : k < n
        /\ \A u, v \in underlyings :
              FirstSeen(cash_trades, u) < FirstSeen(cash_trades, v) =>
                  \A n \in NetRowsAt(summary, u) :
                      \A k \in TradeRowsAt(summary, v) \cup NetRowsAt(summary, v) : n < k

ShownExactly(row, trade) == row.Consideration * MILS_PER_CENT = SignedValue(trade)

ShownRounded(row, trade) ==
    2 * Abs(row.Consideration * MILS_PER_CENT - SignedValue(trade)) <= MILS_PER_CENT

\* C23 as stated - underlyings appear in order of first occurrence in the cash
\* trades; every cash trade appears exactly once as a "Trade" row under its
\* underlying with consideration +quantity x price for Buy and -quantity x price
\* for Sell; each underlying's Trade rows are followed by exactly one NET
\* DELIVERABLE row; exactly one GRAND TOTAL row exists and is the last row.
C23_SummaryExact ==
    \A d \in ExpiryKeys :
        results.value[d].cash_summary # <<>> =>
            SummaryStructure(results.value[d].cash_summary,
                             results.value[d].cash_trades, ShownExactly)

\* C23 as amended - the same structure, the consideration of a Trade row being
\* the signed quantity x price rounded to 2 decimals.
C23_SummaryRounded ==
    \A d \in ExpiryKeys :
        /\ results.value[d].cash_summary = <<>> <=> results.value[d].cash_trades = <<>>
        /\ results.value[d].cash_summary # <<>> =>
              SummaryStructure(results.value[d].cash_summary,
                               results.value[d].cash_trades, ShownRounded)

\* a summary of two underlyings, the later one of the catalogue met first, with
\* a consideration that is not a whole number of cents
C23_Witness ==
    \E d \in ExpiryKeys :
        LET cash_trades == results.value[d].cash_trades
        IN  /\ Len(cash_trades) = 2
            /\ cash_trades[1].Underlying = TCS_EQ
            /\ cash_trades[2].Underlying = RIL_EQ
            /\ SignedValue(cash_trades[2]) % MILS_PER_CENT # 0

----------------------------------------------------------------------------
(* Properties of option settlement *)

\* C24 - moneyness is strict (Call ITM iff price > strike, Put ITM iff
\* price < strike, so an option at its strike is not ITM): a single-stock
\* option yields a cash leg iff it is ITM, and a non-ITM option yields a
\* derivative leg with price 0, empty tradenote and no cash leg.
C24_StrictMoneyness ==
    \A s \in PricedOptionSteps :
        /\ s.deriv # None
        /\ ~NamedIndex(s.row.Ticker) => (s.cash # None <=> ClaimedITM(s))
        /\ ~ClaimedITM(s) =>
              /\ s.deriv.Price = 0
              /\ s.deriv.tradenotes = ""
              /\ s.cash = None

\* a single-stock Call and a single-stock Put were settled at their strike
C24_Witness ==
    /\ \E s \in PricedOptionSteps :
          /\ s.row.Security_Type = "Call"
          /\ ~NamedIndex(s.row.Ticker)
          /\ s.price.v = s.row.Strike.v
    /\ \E s \in PricedOptionSteps :
          /\ s.row.Security_Type = "Put"
          /\ ~NamedIndex(s.row.Ticker)
          /\ s.price.v = s.row.Strike.v

\* iterations that produced the derivative leg of a position of one type
LegSteps(security_type) ==
    {s \in AllSteps : s.row.Security_Type = security_type /\ s.deriv # None}

SameSign(s, t) == (s.row.Lots > 0) = (t.row.Lots > 0)

\* C25 - the derivative leg of an option mirrors the futures rule with Put
\* polarity inverted: a Call gets the side and the strategy tag that a Futures
\* position of the same sign gets, and a Put of the same sign gets the Call's
\* side and the opposite strategy tag.
C25_OptionMirrorsFutures ==
    /\ \A c \in LegSteps("Call") : \A f \in LegSteps("Futures") :
          SameSign(c, f) =>
              /\ c.deriv.Buy_Sell = f.deriv.Buy_Sell
              /\ c.deriv.Strategy = f.deriv.Strategy
    /\ \A c \in LegSteps("Call") : \A p \in LegSteps("Put") :
          SameSign(c, p) =>
              /\ p.deriv.Buy_Sell = c.deriv.Buy_Sell
              /\ p.deriv.Strategy # c.deriv.Strategy
              /\ {p.deriv.Strategy, c.deriv.Strategy} = {"FULO", "FUSH"}
    /\ \A s \in LegSteps("Call") \cup LegSteps("Put") :
          s.deriv.Buy_Sell = (IF s.row.Lots > 0 THEN "Sell" ELSE "Buy")

\* a short Call and a short Put were settled together
C25_Witness ==
    \E c \in LegSteps("Call") : \E p \in LegSteps("Put") :
        c.row.Lots < 0 /\ p.row.Lots < 0

----------------------------------------------------------------------------
(* Properties of expiry grouping and price resolution *)

\* a position as the caller gave it, whatever the type of its 'Expiry' cell
Position(row) ==
    [row EXCEPT !.Expiry = [date |-> row.Expiry.date, time |-> row.Expiry.time]]

\* the input positions expiring on one calendar date, in input order
InputOn(d) ==
    LET OnDate(row) == row.Expiry.date = d
        rows == SelectSeq(input_df, OnDate)
    IN  [i \in 1..Len(rows) |-> Position(rows[i])]

\* the positions an expiry result was made from, in iteration order
GroupedOn(d) == [i \in 1..Len(steps.value[d]) |-> Position(steps.value[d][i].row)]

RECURSIVE SumCounts(_)
SumCounts(dates) ==
    IF dates = {} THEN 0
    ELSE LET d == CHOOSE d \in dates : TRUE
         IN  results.value[d].position_count + SumCounts(dates \ {d})

\* C26 - expiry grouping is a partition at date granularity: two positions
\* fall in the same result entry iff their expiry timestamps have the same
\* calendar date (time of day ignored), every input position belongs to exactly
\* one group, and the position_count values sum to the number of input
\* positions.
C26_DatePartition ==
    results.ran =>
        /\ ExpiryKeys = InputDates
        /\ \A d \in ExpiryKeys :
              /\ GroupedOn(d) = InputOn(d)
              /\ results.value[d].expiry_date = d
              /\ results.value[d].position_count = Len(InputOn(d))
        /\ SumCounts(ExpiryKeys) = Len(input_df)

\* two positions expiring on one date at different times of day share a
\* result entry
C26_Witness ==
    \E d \in ExpiryKeys :
        \E i, j \in 1..Len(steps.value[d]) :
            steps.value[d][i].row.Expiry.time # steps.value[d][j].row.Expiry.time

\* the texts under which the claim looks a position up: its symbol and its
\* underlying
StatedKeys(row) ==
    {row.Symbol} \cup (IF row.Underlying.kind = "str" THEN {row.Underlying.s} ELSE {})

\* ... and the first word of each
FirstWordKeys(row) == StatedKeys(row) \cup {FirstToken(k) : k \in StatedKeys(row)}

\* the prices the mapping holds under a set of keys
PricesUnder(keys) == {input_prices[k] : k \in keys \cap DOMAIN input_prices}

\* the resolution order C27 names, the mapping being asked under Keys(row)
ResolutionOrder(Keys(_)) ==
    \A s \in AllSteps :
        /\ ~NoAttachedPrice(s.row) =>
              (s.price # None /\ s.price.v = s.row.Yahoo_Price.v)
        /\ (NoAttachedPrice(s.row) /\ s.price # None) =>
              s.price.v \in PricesUnder(Keys(s.row))
        /\ s.price = None =>
              (NoAttachedPrice(s.row) /\ PricesUnder(Keys(s.row)) = {})

\* C27 as stated - a valid price attached to the position record is used in
\* preference to the prices mapping even when the mapping has an entry for the
\* position; otherwise the price comes from the mapping entry for the
\* underlying or the symbol; the result is None only when none of these
\* resolves.
C27_ResolutionAsStated == ResolutionOrder(StatedKeys)

\* C27 as amended - the same, the mapping being asked for the symbol, the
\* underlying and the first word of each.
C27_ResolutionByFirstWord == ResolutionOrder(FirstWordKeys)

\* an attached price was used although the mapping lists the symbol at
\* another price
C27_Witness ==
    \E s \in AllSteps :
        /\ ~NoAttachedPrice(s.row)
        /\ s.row.Symbol \in DOMAIN input_prices
        /\ s.price # None
        /\ s.price.v # input_prices[s.row.Symbol]

\* C28 - every position of an expiry group is accounted for exactly once: for
\* each expiry result, number of derivative legs + number of error entries =
\* position_count, the number of cash legs never exceeds the number of
\* derivative legs, and each cash leg's quantity equals the |lots| of a
\* derivative leg of the same group times that leg's lot size.
C28_Accounting ==
    \A d \in ExpiryKeys :
        LET result == results.value[d]
        IN  /\ Len(result.derivatives) + Len(result.errors) = result.position_count
            /\ Len(result.cash_trades) <= Len(result.derivatives)
            /\ \A i \in 1..Len(result.cash_trades) :
                  \E j \in 1..Len(result.derivatives) :
                      /\ result.derivatives[j].Underlying = result.cash_trades[i].Underlying
                      /\ result.cash_trades[i].Position =
                            result.derivatives[j].Position * result.derivatives[j].Lot_Size

\* an expiry result with an error entry next to a position that got both legs
C28_Witness ==
    \E d \in ExpiryKeys :
        /\ results.value[d].errors # <<>>
        /\ results.value[d].cash_trades # <<>>
        /\ results.value[d].position_count = 2

\* C29: a trade on ticker T leaves every other entry of the store as it was,
\* and when T is held before and after, its symbol, security_type, expiry,
\* strike, lot_size and underlying are unchanged
IdentityOf(position) ==
    <<position.ticker, position.symbol, position.security_type, position.expiry,
      position.strike, position.lot_size, position.underlying_ticker>>

TradeFrame ==
    call'.name = "update_position" =>
        LET T == call'.ticker
        IN  /\ DOMAIN positions' \ {T} = DOMAIN positions \ {T}
            /\ \A u \in DOMAIN positions \ {T} : positions'[u] = positions[u]
            /\ (T \in DOMAIN positions /\ T \in DOMAIN positions') =>
                   IdentityOf(positions'[T]) = IdentityOf(positions[T])

C29_TradeFrame == [][TradeFrame]_vars

\* a trade with an option context changed the lots of a held, seeded future
\* while the other ticker was held
C29_Witness ==
    /\ call.name = "update_position"
    /\ DOMAIN positions = AllTickers
    /\ positions[call.ticker].security_type = "Futures"
    /\ positions[call.ticker].lot_size # call.trade_object.lot_size
    /\ positions[call.ticker].lots = MaxLots

\* C30: after initialize_from_positions the held tickers are exactly the
\* snapshot's tickers, each position is the one made from the last seed with
\* its ticker (its lots included), whatever the store held before
LastSeed(snapshot, ticker) ==
    snapshot[CHOOSE i \in 1..Len(snapshot) :
                /\ snapshot[i].bloomberg_ticker = ticker
                /\ \A j \in (i + 1)..Len(snapshot) : snapshot[j].bloomberg_ticker # ticker]

StoreReplaced ==
    call'.name = "initialize_from_positions" =>
        LET snapshot == call'.snapshot
        IN  /\ DOMAIN positions' =
                   {snapshot[i].bloomberg_ticker : i \in 1..Len(snapshot)}
            /\ \A t \in DOMAIN positions' :
                   LET seed == LastSeed(snapshot, t)
                       held == positions'[t]
                   IN  /\ held.lots = seed.position_lots
                       /\ held.symbol = seed.symbol
                       /\ held.security_type = seed.security_type
                       /\ held.expiry = seed.expiry_date
                       /\ held.lot_size = seed.lot_size
                       /\ held.qty = seed.position_lots * seed.lot_size
                       /\ held.underlying_ticker = seed.underlying_ticker

C30_StoreReplaced == [][StoreReplaced]_vars

\* a snapshot naming one ticker twice, with different lots, was loaded
C30_Witness ==
    /\ call.name = "initialize_from_positions"
    /\ Len(call.snapshot) = 2
    /\ call.snapshot[1].bloomberg_ticker = call.snapshot[2].bloomberg_ticker
    /\ call.snapshot[1].position_lots # call.snapshot[2].position_lots
    /\ DOMAIN positions = {call.snapshot[2].bloomberg_ticker}

====
